---- MODULE Spec2Model ----
(***************************************************************************)
(* A model of code/chap08ex.ipynb (Think Stats 2, chapter 8 exercises):    *)
(* the goal-count simulation SimulateGame and the estimation experiments   *)
(* Estimate1, Estimate2, Estimate3, SimulateSample and Estimate4.          *)
(*                                                                         *)
(* Time is kept on a dyadic grid: one game (the literal 1 of `t > 1`) is   *)
(* Unit ticks, so every gap and every sum of gaps of the model is a float  *)
(* the code adds without rounding.                                         *)
(***************************************************************************)
EXTENDS Integers, Sequences, FiniteSets, TLC

VARIABLES
    gpc,      \* SimulateGame: "off", "idle" (not yet entered), "loop", "done", "raised"
    lam,      \* SimulateGame: the argument lam
    goals,    \* SimulateGame: goals
    t,        \* SimulateGame: t, in ticks
    gaps,     \* history: every time_between_goals drawn so far, in order
    ret,      \* SimulateGame: <<>> until it returns, then <<L>>
    gerr,     \* SimulateGame: the exception that left the call, "" if none
    hpc,      \* experiment: "off", "idle" (not yet entered), "loop", "done", "raised"
    fn,       \* experiment: which function runs
    n,        \* experiment: the argument n
    iters,    \* experiment: the argument iters
    trial,    \* experiment: iterations of `for _ in range(iters)` completed
    xs,       \* experiment: xs, the sample of the latest iteration
    est1,     \* experiment: the first list (means, estimates1, xbars, l_estimates)
    est2,     \* experiment: the second list (medians, estimates2), <<>> if none
    drawn,    \* history: how many values the random source has handed out
    herr,     \* experiment: the exception that left the call, "" if none
    spc,      \* summary statistic: "off", "idle" (not yet entered), "done", "raised"
    sfn,      \* summary statistic: which function is called
    sest,     \* summary statistic: the argument estimates
    sarg,     \* summary statistic: the argument actual (of Percentile: p)
    mse,      \* RMSE: <<mse>> once computed, <<>> before
    sout,     \* summary statistic: <<>> until it returns, then <<the value>>
    serr      \* summary statistic: the exception that left the call, "" if none

gameVars == <<gpc, lam, goals, t, gaps, ret, gerr>>

harnessVars == <<hpc, fn, n, iters, trial, xs, est1, est2, drawn, herr>>

statVars == <<spc, sfn, sest, sarg, mse, sout, serr>>

vars == <<gpc, lam, goals, t, gaps, ret, gerr,
          hpc, fn, n, iters, trial, xs, est1, est2, drawn, herr,
          spc, sfn, sest, sarg, mse, sout, serr>>

----------------------------------------------------------------------------
(* Bounds of the model *)

\* ticks in half a game: the resolution of the time grid
HalfUnit == 2

\* the largest rate passed to SimulateGame
MaxRate == 2

\* the largest sample size n and the largest iters passed to an experiment
MaxN == 2

MaxIters == 2

\* the values a sample holds: integers up to MaxVal in size
MaxVal == 1

\* one game, the 1 of `if t > 1`
Unit == 2 * HalfUnit

\* the longest gap drawn: one tick more than a whole game
MaxGap == Unit + 1

\* the loop is followed for at most this many draws (a run of gaps that are
\* all zero or negative never ends)
MaxDraws == Unit + 2

Rates == (-1) .. MaxRate

----------------------------------------------------------------------------
(* Helpers *)

RECURSIVE SumSeq(_)
SumSeq(s) == IF s = <<>> THEN 0 ELSE s[1] + SumSeq(Tail(s))

Prefix(s, k) == SubSeq(s, 1, k)

----------------------------------------------------------------------------
(* SimulateGame *)

\* random.expovariate(lam): the gaps it can return. -log(1 - random())/lam is
\* >= 0 for lam > 0 and <= 0 for lam < 0 (random() may be 0, so a gap may be 0);
\* for lam = 0 the division raises ZeroDivisionError and nothing is returned.
\* Of the negative gaps three sizes are followed: none, one tick, the longest.
Expovariate(l) ==
    IF l > 0 THEN 0 .. MaxGap
    ELSE IF l < 0 THEN {-g : g \in {0, 1, MaxGap}}
    ELSE {}

\* t += time_between_goals  (AccumulateReset: `t = time_between_goals`)
AccumulateReset(tt, g) == g
Accumulate(tt, g) == tt + g

\* if t > 1: break  (OverAtThreshold: `if t >= 1`)
OverAtThreshold(tt) == tt >= Unit
Over(tt) == tt > Unit

\* goals += 1  (CountedTwice: `goals += 2`)
CountedTwice(g) == g + 2
Counted(g) == g + 1

\* L = goals; return L  (ReturnedLessCrossing: `goals - 1`;
\* ReturnedWithCrossing: `goals + 1`, the crossing gap counted too)
ReturnedLessCrossing(g) == g - 1
ReturnedWithCrossing(g) == g + 1
Returned(g) == g

\* goals = 0; t = 0
SimulateGameEnter ==
    /\ gpc = "idle"
    /\ gpc' = "loop"
    /\ goals' = 0
    /\ t' = 0
    /\ UNCHANGED <<lam, gaps, ret, gerr>>
    /\ UNCHANGED harnessVars
    /\ UNCHANGED statVars

\* the draw of one iteration fails: random.expovariate(0) divides by zero
DrawRaises ==
    /\ gpc = "loop"
    /\ lam = 0
    /\ gpc' = "raised"
    /\ gerr' = "ZeroDivisionError"
    /\ UNCHANGED <<lam, goals, t, gaps, ret>>
    /\ UNCHANGED harnessVars
    /\ UNCHANGED statVars

\* one iteration that ends the loop: draw, add, t > 1, break, return goals
DrawCrosses ==
    /\ gpc = "loop"
    /\ Len(gaps) < MaxDraws
    /\ \E g \in Expovariate(lam) :
          /\ Over(Accumulate(t, g))
          /\ gaps' = Append(gaps, g)
          /\ t' = Accumulate(t, g)
          /\ gpc' = "done"
          /\ ret' = <<Returned(goals)>>
    /\ UNCHANGED <<lam, goals, gerr>>
    /\ UNCHANGED harnessVars
    /\ UNCHANGED statVars

\* one iteration that stays in the loop: draw, add, not t > 1, goals += 1
DrawCounts ==
    /\ gpc = "loop"
    /\ Len(gaps) < MaxDraws
    /\ \E g \in Expovariate(lam) :
          /\ ~Over(Accumulate(t, g))
          /\ gaps' = Append(gaps, g)
          /\ t' = Accumulate(t, g)
          /\ goals' = Counted(goals)
          /\ gpc' = "loop"
    /\ UNCHANGED <<lam, ret, gerr>>
    /\ UNCHANGED harnessVars
    /\ UNCHANGED statVars

\* the body of `while True`
LoopIteration == DrawRaises \/ DrawCrosses \/ DrawCounts

InitGame ==
    /\ gpc = "idle"
    /\ lam \in Rates
    /\ goals = 0
    /\ t = 0
    /\ gaps = <<>>
    /\ ret = <<>>
    /\ gerr = ""
    /\ hpc = "off"
    /\ fn = ""
    /\ n = 0
    /\ iters = 0
    /\ trial = 0
    /\ xs = <<>>
    /\ est1 = <<>>
    /\ est2 = <<>>
    /\ drawn = 0
    /\ herr = ""
    /\ spc = "off"
    /\ sfn = ""
    /\ sest = <<>>
    /\ sarg = 0
    /\ mse = <<>>
    /\ sout = <<>>
    /\ serr = ""

NextGame == SimulateGameEnter \/ LoopIteration

SpecGame == InitGame /\ [][NextGame]_vars

\* a running call keeps executing: the interpreter takes the next step whenever
\* there is one
SpecGameFair == InitGame /\ [][NextGame]_vars /\ WF_vars(NextGame)

----------------------------------------------------------------------------
(* SimulateGame: properties *)

AllGapsAtLeast(d) == \A i \in 1 .. Len(gaps) : gaps[i] >= d

AllGapsAre(d) == \A i \in 1 .. Len(gaps) : gaps[i] = d

\* C1: when every drawn gap is > 0 and the call has returned, the value
\* returned is the largest k with g1 + ... + gk <= 1: exactly k + 1 gaps were
\* drawn, the first k sum to at most 1 and are all counted, and the last one,
\* which takes the sum over 1, is not counted.
C1_ReturnsLargestPrefix ==
    (gpc = "done" /\ AllGapsAtLeast(1)) =>
        LET k == ret[1] IN
        /\ Len(gaps) = k + 1
        /\ SumSeq(Prefix(gaps, k)) <= Unit
        /\ SumSeq(gaps) > Unit
        /\ \A j \in 0 .. Len(gaps) : SumSeq(Prefix(gaps, j)) <= Unit => j <= k

C1_Witness ==
    /\ gpc = "done"
    /\ AllGapsAtLeast(1)
    /\ Len(gaps) = 3
    /\ ret = <<2>>

\* C2: when the gaps drawn so far sum to exactly 1, the loop has not stopped:
\* the call is still in the loop, has not returned, the gap that landed on 1 is
\* counted, and a further gap is drawn (up to the draws the model follows).
C2_ExactlyOneIsNotOver ==
    (gpc # "idle" /\ gaps # <<>> /\ SumSeq(gaps) = Unit) =>
        /\ gpc = "loop"
        /\ ret = <<>>
        /\ goals = Len(gaps)
        /\ (Len(gaps) < MaxDraws => ENABLED (DrawCrosses \/ DrawCounts))

C2_Witness ==
    /\ gpc = "loop"
    /\ gaps = <<HalfUnit, HalfUnit>>
    /\ t = Unit
    /\ goals = 2

\* C3, as stated: with a generator that always returns the gap 0.5 the call
\* returns exactly 1.
C3_MockHalfReturnsOne ==
    (gpc = "done" /\ AllGapsAre(HalfUnit)) => ret = <<1>>

\* C3, amended: with a generator that always returns the gap 0.5 the call
\* draws three gaps and returns exactly 2 (the gaps landing on 0.5 and on 1.0
\* are both counted, the third crosses).
C3_MockHalfReturnsTwo ==
    (gpc = "done" /\ AllGapsAre(HalfUnit)) => (ret = <<2>> /\ Len(gaps) = 3)

C3_Witness ==
    /\ gpc = "done"
    /\ gaps = <<HalfUnit, HalfUnit, HalfUnit>>

\* C4: if the first gap drawn exceeds 1, the call has returned 0 and that gap
\* is the only one drawn.
C4_FirstGapOverReturnsZero ==
    (gaps # <<>> /\ gaps[1] > Unit) =>
        (gpc = "done" /\ ret = <<0>> /\ Len(gaps) = 1)

C4_Witness ==
    /\ gpc = "done"
    /\ gaps = <<MaxGap>>
    /\ ret = <<0>>

\* C5: for a rate > 0 the call follows the machine {ACCUMULATING, DONE}: it
\* enters ACCUMULATING ("loop") with goals = 0 and t = 0; each step from
\* ACCUMULATING draws one gap and, when t + gap <= 1, stays there with goals
\* one larger and t advanced by the gap, and otherwise moves to DONE with goals
\* unchanged, returning that count; no step leaves or changes DONE.
C5_TwoStateMachine ==
    [][ lam > 0 =>
          /\ gpc' \in {"loop", "done"}
          /\ (gpc = "idle" => (gpc' = "loop" /\ goals' = 0 /\ t' = 0 /\ gaps' = <<>>))
          /\ (gpc = "loop" =>
                /\ Len(gaps') = Len(gaps) + 1
                /\ LET g == gaps'[Len(gaps')] IN
                   IF t + g <= Unit
                   THEN gpc' = "loop" /\ goals' = goals + 1 /\ t' = t + g /\ ret' = <<>>
                   ELSE gpc' = "done" /\ goals' = goals /\ ret' = <<goals>>)
          /\ gpc # "done"
      ]_vars

C5_Witness ==
    /\ gpc = "done"
    /\ lam > 0
    /\ goals = Unit
    /\ ret = <<goals>>

\* C6: in every state of the call, for every rate and every sequence of gaps,
\* goals is an integer >= 0, and so is the value returned.
C6_CountNeverNegative ==
    /\ goals \in Nat
    /\ (ret # <<>> => ret[1] \in Nat)

C6_Witness ==
    /\ gpc = "done"
    /\ lam = MaxRate
    /\ Len(gaps) = 1
    /\ ret[1] = 0

\* C7: for a rate > 0, when every gap drawn is at least d > 0, at most
\* 1/d + 1 gaps are drawn, and the call eventually reaches DONE.
C7_TerminatesOnPositiveGaps ==
    /\ [](\A d \in 1 .. Unit : AllGapsAtLeast(d) => Len(gaps) <= (Unit \div d) + 1)
    /\ <>(gpc = "done" \/ lam <= 0 \/ ~AllGapsAtLeast(1))

C7_Witness ==
    /\ gpc = "done"
    /\ lam > 0
    /\ AllGapsAre(1)
    /\ Len(gaps) = Unit + 1

\* C8: a rate <= 0 is rejected at the boundary with InvalidArgument: the call
\* never draws a gap, never counts a goal, never returns a count, and the only
\* exception that leaves it is InvalidArgument.
C8_NonPositiveRateRejected ==
    lam <= 0 =>
        /\ gaps = <<>>
        /\ goals = 0
        /\ ret = <<>>
        /\ gpc # "done"
        /\ (gpc = "raised" => gerr = "InvalidArgument")

\* C19: whenever the loop is still running, goals is the number of gaps drawn
\* so far, t is their sum and t <= 1; and an iteration that draws a gap >= 0
\* and stays in the loop decreases neither goals nor t.
C19_LoopInvariant ==
    /\ [](gpc = "loop" =>
            (goals = Len(gaps) /\ t = SumSeq(gaps) /\ t <= Unit))
    /\ [][ (gpc = "loop" /\ gpc' = "loop" /\ gaps'[Len(gaps')] >= 0) =>
             (goals' >= goals /\ t' >= t) ]_vars

C19_Witness ==
    /\ gpc = "loop"
    /\ lam > 0
    /\ Len(gaps) = 3
    /\ goals = 3
    /\ t = SumSeq(gaps)
    /\ t = Unit

\* C20: when the call has returned the count c, exactly c + 1 gaps have been
\* drawn, the last of them being the one that took the sum over 1; and no step
\* draws a gap once the call has returned.
C20_DrawsCountPlusOne ==
    /\ [](gpc = "done" =>
            /\ Len(gaps) = ret[1] + 1
            /\ SumSeq(gaps) > Unit
            /\ SumSeq(Prefix(gaps, Len(gaps) - 1)) <= Unit)
    /\ [][ gpc = "done" => gaps' = gaps ]_vars

C20_Witness ==
    /\ gpc = "done"
    /\ ret = <<3>>
    /\ Len(gaps) = 4
    /\ gaps[4] = MaxGap

----------------------------------------------------------------------------
(* Numbers of the experiments *)

\* A float is kept as an exact fraction [num, den] in lowest terms with
\* den >= 0; den = 0 is a division by zero, as numpy returns it: 0/0 is nan,
\* a/0 is inf or -inf. ln2 marks a value that is a fraction times log(2).

Abs(a) == IF a < 0 THEN -a ELSE a

Sign(a) == IF a < 0 THEN -1 ELSE IF a > 0 THEN 1 ELSE 0

Max(a, b) == IF a >= b THEN a ELSE b

RECURSIVE Gcd(_, _)
Gcd(a, b) == IF b = 0 THEN a ELSE Gcd(b, a % b)

Rat(a, b) ==
    IF b = 0 THEN [num |-> Sign(a), den |-> 0, ln2 |-> FALSE]
    ELSE LET g == Gcd(Abs(a), Abs(b)) IN
         [num |-> (Sign(b) * a) \div g, den |-> Abs(b) \div g, ln2 |-> FALSE]

SumSquares(s) == SumSeq([i \in 1 .. Len(s) |-> s[i] * s[i]])

\* sorted(xs), by insertion
RECURSIVE Insert(_, _)
Insert(x, s) ==
    IF s = <<>> THEN <<x>>
    ELSE IF x <= s[1] THEN <<x>> \o s
    ELSE <<s[1]>> \o Insert(x, Tail(s))

RECURSIVE Sorted(_)
Sorted(s) == IF s = <<>> THEN <<>> ELSE Insert(s[1], Sorted(Tail(s)))

\* np.mean(xs): the sum over the length; nan for an empty xs
\* (NpMeanSample: the sum over the length less one)
NpMeanSample(s) == Rat(SumSeq(s), Len(s) - 1)
NpMean(s) == Rat(SumSeq(s), Len(s))

\* np.median(xs): the middle of the sorted values, the mean of the two middle
\* ones for an even length; nan for an empty xs
NpMedian(s) ==
    LET k == Len(s)
        srt == Sorted(s)
    IN  IF k = 0 THEN Rat(0, 0)
        ELSE IF k % 2 = 1 THEN Rat(srt[(k + 1) \div 2], 1)
        ELSE Rat(srt[k \div 2] + srt[(k \div 2) + 1], 2)

\* np.var(xs, ddof): sum((x - mean)^2) / max(len - ddof, 0), which is
\* (len * sum(x^2) - sum(x)^2) / (len * max(len - ddof, 0))
NpVar(s, ddof) ==
    LET k == Len(s)
        sm == SumSeq(s)
    IN  Rat(k * SumSquares(s) - sm * sm, k * Max(k - ddof, 0))

\* 1 / v for a numpy float v
Recip(v) == Rat(v.den, v.num)

\* np.log(2) / v
Ln2Over(v) == [Recip(v) EXCEPT !.ln2 = TRUE]

\* thinkstats2.Median(xs), for a non-empty xs
ThinkstatsMedian(s) == NpMedian(s)

----------------------------------------------------------------------------
(* The experiments: Estimate1, Estimate2, Estimate3, SimulateSample, Estimate4 *)

GaussVals == (-MaxVal) .. MaxVal

ExpVals == 0 .. MaxVal

\* the sequences of k values of V (k <= 0: the empty one only)
Samples(V, k) == [1 .. k -> V]

Functions == {"Estimate1", "Estimate2", "Estimate3", "SimulateSample", "Estimate4"}

TwoLists == {"Estimate1", "Estimate2", "Estimate3"}

\* means = []; medians = []  (and the like)
ExperimentEnter ==
    /\ hpc = "idle"
    /\ hpc' = "loop"
    /\ trial' = 0
    /\ est1' = <<>>
    /\ est2' = <<>>
    /\ UNCHANGED <<fn, n, iters, xs, drawn, herr>>
    /\ UNCHANGED gameVars
    /\ UNCHANGED statVars

\* for _ in range(iters): is there a further iteration
MoreTrials == trial < iters

\* one iteration of a loop that ends normally: the sample s was drawn and the
\* results a (and b, for a function with two lists) are appended
Appended(s, a, b) ==
    /\ xs' = s
    /\ drawn' = drawn + Len(s)
    /\ est1' = Append(est1, a)
    /\ est2' = IF fn \in TwoLists THEN Append(est2, b) ELSE est2
    /\ trial' = trial + 1
    /\ UNCHANGED <<hpc, fn, n, iters, herr>>
    /\ UNCHANGED gameVars
    /\ UNCHANGED statVars

\* one iteration that an exception leaves
Raised(s, e) ==
    /\ xs' = s
    /\ drawn' = drawn + Len(s)
    /\ hpc' = "raised"
    /\ herr' = e
    /\ UNCHANGED <<fn, n, iters, trial, est1, est2>>
    /\ UNCHANGED gameVars
    /\ UNCHANGED statVars

\* Estimate1: xs = [random.gauss(mu, sigma) for _ in range(n)];
\* means.append(np.mean(xs)); medians.append(np.median(xs))
\* (Estimate1Resampled: the median is taken of a second sample;
\* Estimate1MeanOnly: medians.append is left out)
Estimate1Resampled ==
    /\ hpc = "loop" /\ fn = "Estimate1" /\ MoreTrials
    /\ \E s1 \in Samples(GaussVals, n), s2 \in Samples(GaussVals, n) :
          /\ xs' = s2
          /\ drawn' = drawn + Len(s1) + Len(s2)
          /\ est1' = Append(est1, NpMean(s1))
          /\ est2' = Append(est2, NpMedian(s2))
          /\ trial' = trial + 1
          /\ UNCHANGED <<hpc, fn, n, iters, herr>>
          /\ UNCHANGED gameVars
          /\ UNCHANGED statVars
Estimate1MeanOnly ==
    /\ hpc = "loop" /\ fn = "Estimate1" /\ MoreTrials
    /\ \E s \in Samples(GaussVals, n) :
          /\ xs' = s
          /\ drawn' = drawn + Len(s)
          /\ est1' = Append(est1, NpMean(s))
          /\ trial' = trial + 1
          /\ UNCHANGED <<hpc, fn, n, iters, herr, est2>>
          /\ UNCHANGED gameVars
          /\ UNCHANGED statVars
Estimate1Trial ==
    /\ hpc = "loop" /\ fn = "Estimate1" /\ MoreTrials
    /\ \E s \in Samples(GaussVals, n) :
          Appended(s, NpMean(s), NpMedian(s))

\* Estimate2: xs = [random.gauss(mu, sigma) for i in range(n)];
\* estimates1.append(np.var(xs)); estimates2.append(np.var(xs, ddof=1))
Estimate2Trial ==
    /\ hpc = "loop" /\ fn = "Estimate2" /\ MoreTrials
    /\ \E s \in Samples(GaussVals, n) :
          Appended(s, NpVar(s, 0), NpVar(s, 1))

\* Estimate3: xs = np.random.exponential(1.0/lam, n), which raises ValueError
\* for n < 0; means.append(1 / np.mean(xs));
\* medians.append(np.log(2) / thinkstats2.Median(xs)), where Median of an
\* empty xs fails
Estimate3Trial ==
    /\ hpc = "loop" /\ fn = "Estimate3" /\ MoreTrials
    /\ IF n < 0 THEN Raised(<<>>, "ValueError")
       ELSE \E s \in Samples(ExpVals, n) :
               IF s = <<>> THEN Raised(s, "InvalidArgument")
               ELSE Appended(s, Recip(NpMean(s)), Ln2Over(ThinkstatsMedian(s)))

\* SimulateSample: xs = np.random.normal(mu, sigma, n), which raises
\* ValueError for n < 0; xbars.append(np.mean(xs))
SimulateSampleTrial ==
    /\ hpc = "loop" /\ fn = "SimulateSample" /\ MoreTrials
    /\ IF n < 0 THEN Raised(<<>>, "ValueError")
       ELSE \E s \in Samples(GaussVals, n) :
               Appended(s, NpMean(s), NpMean(s))

\* Estimate4: xs = np.random.exponential(1.0/lam, n), which raises ValueError
\* for n < 0; l_estimates.append(1 / np.mean(xs))
Estimate4Trial ==
    /\ hpc = "loop" /\ fn = "Estimate4" /\ MoreTrials
    /\ IF n < 0 THEN Raised(<<>>, "ValueError")
       ELSE \E s \in Samples(ExpVals, n) :
               Appended(s, Recip(NpMean(s)), Recip(NpMean(s)))

\* range(iters) is used up: the lists are reported or returned
ExperimentReturn ==
    /\ hpc = "loop"
    /\ ~MoreTrials
    /\ hpc' = "done"
    /\ UNCHANGED <<fn, n, iters, trial, xs, est1, est2, drawn, herr>>
    /\ UNCHANGED gameVars
    /\ UNCHANGED statVars

InitHarness ==
    /\ hpc = "idle"
    /\ fn \in Functions
    /\ n \in (-1) .. MaxN
    /\ iters \in (-1) .. MaxIters
    /\ trial = 0
    /\ xs = <<>>
    /\ est1 = <<>>
    /\ est2 = <<>>
    /\ drawn = 0
    /\ herr = ""
    /\ gpc = "off"
    /\ lam = 0
    /\ goals = 0
    /\ t = 0
    /\ gaps = <<>>
    /\ ret = <<>>
    /\ gerr = ""
    /\ spc = "off"
    /\ sfn = ""
    /\ sest = <<>>
    /\ sarg = 0
    /\ mse = <<>>
    /\ sout = <<>>
    /\ serr = ""

NextHarness ==
    \/ ExperimentEnter
    \/ Estimate1Trial
    \/ Estimate2Trial
    \/ Estimate3Trial
    \/ SimulateSampleTrial
    \/ Estimate4Trial
    \/ ExperimentReturn

SpecHarness == InitHarness /\ [][NextHarness]_vars

----------------------------------------------------------------------------
(* The experiments: properties *)

\* what each function with two lists appends for a sample s
FirstEstimate(f, s) ==
    CASE f = "Estimate1" -> NpMean(s)
      [] f = "Estimate2" -> NpVar(s, 0)
      [] f = "Estimate3" -> Recip(NpMean(s))

SecondEstimate(f, s) ==
    CASE f = "Estimate1" -> NpMedian(s)
      [] f = "Estimate2" -> NpVar(s, 1)
      [] f = "Estimate3" -> Ln2Over(ThinkstatsMedian(s))

\* C9: every completed trial of Estimate1, Estimate2 and Estimate3 draws
\* exactly one sample, of n fresh values of the random source, and appends to
\* each of the two lists the estimator of that list applied to that one sample;
\* the earlier entries of both lists stay as they are.
C9_OneSamplePerTrial ==
    [][ (fn \in TwoLists /\ trial' = trial + 1) =>
          /\ Len(xs') = Max(n, 0)
          /\ drawn' = drawn + Max(n, 0)
          /\ est1' = Append(est1, FirstEstimate(fn, xs'))
          /\ est2' = Append(est2, SecondEstimate(fn, xs'))
      ]_vars

C9_Witness ==
    /\ fn = "Estimate2"
    /\ n = MaxN
    /\ trial = 2
    /\ drawn = 2 * MaxN
    /\ est1[2] = NpVar(xs, 0)
    /\ est2[2] = NpVar(xs, 1)
    /\ est1[1] # est1[2]
    /\ est1[2] # est2[2]

\* C10: after k completed trials every list of the experiment holds exactly k
\* estimates (a function with one list leaves the other empty), k never
\* exceeds iters, and on return, for iters >= 0, every list holds exactly
\* iters estimates.
C10_ListsGrowInLockstep ==
    /\ Len(est1) = trial
    /\ Len(est2) = (IF fn \in TwoLists THEN trial ELSE 0)
    /\ trial <= Max(iters, 0)
    /\ (hpc = "done" /\ iters >= 0) => Len(est1) = iters

C10_Witness ==
    /\ hpc = "done"
    /\ fn = "Estimate1"
    /\ n = MaxN
    /\ iters = MaxIters
    /\ Len(est1) = MaxIters
    /\ Len(est2) = MaxIters

\* C11: an experiment called with n < 1 or iters < 1 is rejected with
\* InvalidArgument: it never draws a value, never appends an estimate, never
\* returns, and the only exception that leaves it is InvalidArgument.
C11_InvalidSizesRejected ==
    (n < 1 \/ iters < 1) =>
        /\ drawn = 0
        /\ est1 = <<>>
        /\ est2 = <<>>
        /\ hpc # "done"
        /\ (hpc = "raised" => herr = "InvalidArgument")

----------------------------------------------------------------------------
(* The summary statistics: RMSE, MeanError, cdf.Percentile *)

\* the longest list of estimates passed to a summary statistic
MaxLen == 3

\* the estimates and actual: integers up to MaxEst in size
MaxEst == 2

\* np.sqrt keeps this many binary places of a root
SqrtBits == 4

EstVals == (-MaxEst) .. MaxEst

\* the lists of estimates, the empty one included
EstLists == UNION {[1 .. k -> EstVals] : k \in 0 .. MaxLen}

\* p of cdf.Percentile: the ends, the median, the two the notebook asks for,
\* and one value off each end
PercentileArgs == {-1, 0, 5, 50, 95, 100, 101}

RECURSIVE Pow2(_)
Pow2(k) == IF k = 0 THEN 1 ELSE 2 * Pow2(k - 1)

SqrtScale == Pow2(SqrtBits)

\* the largest r in lo .. hi with (r / SqrtScale)^2 <= a / b, by bisection
RECURSIVE RootBelow(_, _, _, _)
RootBelow(lo, hi, a, b) ==
    IF lo = hi THEN lo
    ELSE LET mid == (lo + hi + 1) \div 2 IN
         IF mid * mid * b <= SqrtScale * SqrtScale * a
         THEN RootBelow(mid, hi, a, b)
         ELSE RootBelow(lo, mid - 1, a, b)

\* np.sqrt(v): the float nearest to the root of v (nan for nan and for a
\* negative v, inf for inf), floats having SqrtBits binary places
\* (NpSqrtFloor: the root is cut off, not rounded)
NpSqrtFloor(v) ==
    IF v.den = 0 THEN Rat(Max(v.num, 0), 0)
    ELSE IF v.num < 0 THEN Rat(0, 0)
    ELSE Rat(RootBelow(0, SqrtScale * ((v.num \div v.den) + 1), v.num, v.den),
             SqrtScale)
NpSqrt(v) ==
    IF v.den = 0 THEN Rat(Max(v.num, 0), 0)
    ELSE IF v.num < 0 THEN Rat(0, 0)
    ELSE LET fl == RootBelow(0, SqrtScale * ((v.num \div v.den) + 1), v.num, v.den)
             up == (2 * fl + 1) * (2 * fl + 1) * v.den
                      <= 4 * SqrtScale * SqrtScale * v.num
         IN  Rat(IF up THEN fl + 1 ELSE fl, SqrtScale)

\* RMSE: e2 = [(estimate-actual)**2 for estimate in estimates]
\* (UnsquaredErrors: `abs(estimate-actual)`, the error not squared)
UnsquaredErrors(est, actual) == [i \in 1 .. Len(est) |-> Abs(est[i] - actual)]
SquaredErrors(est, actual) ==
    [i \in 1 .. Len(est) |-> (est[i] - actual) * (est[i] - actual)]

\* RMSE: mse = np.mean(e2)
MeanSquaredError(est, actual) == NpMean(SquaredErrors(est, actual))

\* MeanError: errors = [estimate-actual for estimate in estimates]
\* (AbsoluteErrors: `abs(estimate-actual)`)
AbsoluteErrors(est, actual) == [i \in 1 .. Len(est) |-> Abs(est[i] - actual)]
Errors(est, actual) == [i \in 1 .. Len(est) |-> est[i] - actual]

\* MeanError: return np.mean(errors)
\* (MeanErrorWeighted: a mean that weights each error by its position)
MeanErrorWeighted(est, actual) ==
    Rat(SumSeq([i \in 1 .. Len(est) |-> i * (est[i] - actual)]), Len(est))
MeanError(est, actual) == NpMean(Errors(est, actual))

\* cdf.Percentile(p): the value at rank p of the sorted estimates, the ranks
\* running from 0 (the smallest) to 100 (the largest), interpolated linearly
\* between the two order statistics that bracket the rank
\* (PercentileUnsorted: the estimates are not sorted first;
\* PercentileLower: the lower bracketing order statistic, not interpolated)
PercentileUnsorted(est, p) ==
    LET pos == (Len(est) - 1) * p
        lo  == (pos \div 100) + 1
        hi  == IF lo < Len(est) THEN lo + 1 ELSE lo
    IN  Rat(100 * est[lo] + (pos % 100) * (est[hi] - est[lo]), 100)
PercentileLower(est, p) ==
    LET srt == Sorted(est)
        pos == (Len(est) - 1) * p
    IN  Rat(srt[(pos \div 100) + 1], 1)
Percentile(est, p) ==
    LET srt == Sorted(est)
        pos == (Len(est) - 1) * p
        lo  == (pos \div 100) + 1
        hi  == IF lo < Len(est) THEN lo + 1 ELSE lo
    IN  Rat(100 * srt[lo] + (pos % 100) * (srt[hi] - srt[lo]), 100)

\* cdf.Percentile: the arguments it accepts
PercentileAccepts(est, p) == est # <<>> /\ p >= 0 /\ p <= 100

\* RMSE: return np.sqrt(mse)
RMSE(est, actual) == NpSqrt(MeanSquaredError(est, actual))

\* RMSE(estimates, actual)
RMSECall ==
    /\ spc = "idle" /\ sfn = "RMSE"
    /\ mse' = <<MeanSquaredError(sest, sarg)>>
    /\ sout' = <<RMSE(sest, sarg)>>
    /\ spc' = "done"
    /\ UNCHANGED <<sfn, sest, sarg, serr>>
    /\ UNCHANGED <<gameVars, harnessVars>>

\* MeanError(estimates, actual)
MeanErrorCall ==
    /\ spc = "idle" /\ sfn = "MeanError"
    /\ sout' = <<MeanError(sest, sarg)>>
    /\ spc' = "done"
    /\ UNCHANGED <<sfn, sest, sarg, mse, serr>>
    /\ UNCHANGED <<gameVars, harnessVars>>

\* cdf = thinkstats2.Cdf(estimates); cdf.Percentile(p)
PercentileReturns ==
    /\ spc = "idle" /\ sfn = "Percentile"
    /\ PercentileAccepts(sest, sarg)
    /\ sout' = <<Percentile(sest, sarg)>>
    /\ spc' = "done"
    /\ UNCHANGED <<sfn, sest, sarg, mse, serr>>
    /\ UNCHANGED <<gameVars, harnessVars>>

PercentileRaises ==
    /\ spc = "idle" /\ sfn = "Percentile"
    /\ ~PercentileAccepts(sest, sarg)
    /\ serr' = "InvalidArgument"
    /\ spc' = "raised"
    /\ UNCHANGED <<sfn, sest, sarg, mse, sout>>
    /\ UNCHANGED <<gameVars, harnessVars>>

InitStats ==
    /\ spc = "idle"
    /\ sfn \in {"RMSE", "MeanError", "Percentile"}
    /\ sest \in EstLists
    /\ sarg \in (IF sfn = "Percentile" THEN PercentileArgs ELSE EstVals)
    /\ mse = <<>>
    /\ sout = <<>>
    /\ serr = ""
    /\ gpc = "off"
    /\ lam = 0
    /\ goals = 0
    /\ t = 0
    /\ gaps = <<>>
    /\ ret = <<>>
    /\ gerr = ""
    /\ hpc = "off"
    /\ fn = ""
    /\ n = 0
    /\ iters = 0
    /\ trial = 0
    /\ xs = <<>>
    /\ est1 = <<>>
    /\ est2 = <<>>
    /\ drawn = 0
    /\ herr = ""

NextStats == RMSECall \/ MeanErrorCall \/ PercentileReturns \/ PercentileRaises

SpecStats == InitStats /\ [][NextStats]_vars

----------------------------------------------------------------------------
(* The summary statistics: properties *)

Zero == [num |-> 0, den |-> 1, ln2 |-> FALSE]

\* the value v, a float of the root grid, in units of 1 / SqrtScale
OnRootGrid(v) == v.num * (SqrtScale \div v.den)

Smallest(est) == CHOOSE m \in {est[i] : i \in 1 .. Len(est)} :
                    \A i \in 1 .. Len(est) : m <= est[i]

Largest(est) == CHOOSE m \in {est[i] : i \in 1 .. Len(est)} :
                   \A i \in 1 .. Len(est) : m >= est[i]

Permuted(est, f) == [i \in 1 .. Len(est) |-> est[f[i]]]

\* C12: RMSE and MeanError called with an empty list of estimates fail with
\* InvalidArgument and return no value.
C12_EmptyEstimatesRejected ==
    (sfn \in {"RMSE", "MeanError"} /\ sest = <<>> /\ spc # "idle") =>
        /\ spc = "raised"
        /\ serr = "InvalidArgument"
        /\ sout = <<>>

\* C13: for a non-empty list in which every estimate equals actual, MeanError
\* and RMSE both return exactly 0.
C13_ExactEstimatesGiveZero ==
    ( /\ sfn \in {"RMSE", "MeanError"}
      /\ spc # "idle"
      /\ sest # <<>>
      /\ \A i \in 1 .. Len(sest) : sest[i] = sarg ) =>
        (spc = "done" /\ sout = <<Zero>>)

C13_Witness ==
    /\ spc = "done"
    /\ sfn = "RMSE"
    /\ sest = <<MaxEst, MaxEst, MaxEst>>
    /\ sarg = MaxEst
    /\ sout = <<Zero>>

\* C14: for a non-empty list MeanError returns the signed mean of the errors,
\* (sum of estimates - len * actual) / len: deviations of opposite sign cancel,
\* and the result is negative when the estimates lie below actual on average.
C14_MeanErrorIsSignedMean ==
    (sfn = "MeanError" /\ spc # "idle" /\ sest # <<>>) =>
        LET v == sout[1]
            d == SumSeq(sest) - Len(sest) * sarg
        IN  /\ spc = "done"
            /\ v.den > 0
            /\ v.num * Len(sest) = d * v.den
            /\ (d < 0 <=> v.num < 0)

C14_Witness ==
    /\ spc = "done"
    /\ sfn = "MeanError"
    /\ sest = <<-1, 1, -MaxEst>>
    /\ sarg = 0
    /\ sout[1].num < 0

\* C15, as stated: for a non-empty list the value RMSE returns, squared, equals
\* the mean squared error.
C15_RootSquaredIsMeanSquare ==
    (sfn = "RMSE" /\ spc = "done" /\ sest # <<>>) =>
        LET r == sout[1]
            m == mse[1]
        IN  r.num * r.num * m.den = m.num * r.den * r.den

\* C15, amended: for a non-empty list the mean squared error is never negative
\* and RMSE returns the float nearest to its root: a value >= 0 within half a
\* unit in the last place of the root, so that RMSE squared equals the mean
\* squared error up to that rounding, and exactly when the root is a float.
C15_RootIsNearestFloat ==
    (sfn = "RMSE" /\ spc = "done" /\ sest # <<>>) =>
        LET m == mse[1]
            r == OnRootGrid(sout[1])
            ss == SqrtScale * SqrtScale
        IN  /\ m.den > 0 /\ m.num >= 0
            /\ m.num * Len(sest) = SumSeq(SquaredErrors(sest, sarg)) * m.den
            /\ sout[1].den > 0 /\ r >= 0
            /\ (2 * r + 1) * (2 * r + 1) * m.den >= 4 * ss * m.num
            /\ (r > 0 => (2 * r - 1) * (2 * r - 1) * m.den <= 4 * ss * m.num)
            /\ \A k \in 0 .. SqrtScale * 2 * MaxEst :
                  k * k * m.den = ss * m.num => r = k

C15_Witness ==
    /\ spc = "done"
    /\ sfn = "RMSE"
    /\ sest = <<0, 2>>
    /\ sarg = 0
    /\ mse = <<Rat(2, 1)>>
    /\ sout[1].num * sout[1].num # 2 * sout[1].den * sout[1].den

C17_PercentileEnds ==
    (sfn = "Percentile" /\ spc # "idle" /\ sest # <<>> /\ sarg \in {0, 100}) =>
        /\ spc = "done"
        /\ sout[1].den = 1
        /\ sout[1].num = IF sarg = 0 THEN Smallest(sest) ELSE Largest(sest)

C17_Witness ==
    /\ spc = "done"
    /\ sfn = "Percentile"
    /\ sarg = 100
    /\ sest = <<MaxEst, -MaxEst, 0>>
    /\ sout[1].num = MaxEst

\* C18: for a non-empty list Percentile(50) returns the conventional median:
\* the middle order statistic for an odd length, the midpoint of the two
\* middle order statistics for an even length.
C18_PercentileFiftyIsMedian ==
    (sfn = "Percentile" /\ spc # "idle" /\ sest # <<>> /\ sarg = 50) =>
        LET k == Len(sest)
            srt == Sorted(sest)
            v == sout[1]
        IN  /\ spc = "done"
            /\ v.den > 0
            /\ IF k % 2 = 1
               THEN v.num = srt[(k + 1) \div 2] * v.den
               ELSE 2 * v.num = (srt[k \div 2] + srt[(k \div 2) + 1]) * v.den

C18_Witness ==
    /\ spc = "done"
    /\ sfn = "Percentile"
    /\ sarg = 50
    /\ sest = <<1, 0>>
    /\ sout[1].num = 1
    /\ sout[1].den = 2

C21_WitnessEqual ==
    /\ spc = "done"
    /\ sfn = "RMSE"
    /\ sest = <<MaxEst, MaxEst>>
    /\ sarg = 0
    /\ mse = <<Rat(MaxEst * MaxEst, 1)>>

====
